---- MODULE Spec2Model ----
(***************************************************************************)
(* The aiRagSearch request handler (netlify/functions/aiRagSearch.ts) as a *)
(* state machine: one request, handled stage by stage.  JavaScript values  *)
(* are records [t, s]: the type tag and the text a template literal gives. *)
(* Text is kept as TLA+ strings, so trimming and line building are real.   *)
(* The chat widget (FloatingChatbot.tsx) and the embedding indexer         *)
(* (generateEmbeddings.ts) are two more machines over their own variables, *)
(* each with its own specification: SpecChat and SpecIndexer.              *)
(***************************************************************************)
EXTENDS Integers, Sequences, FiniteSets, TLC

\* ------------------------------------------------------------ bounds
MaxConv == 7
MaxDocs == 5
MaxMatchK == 1
MaxSends == 3
MaxProps == 3
MaxBatchSize == 2

\* ------------------------------------------------------------ program constants
DEFAULT_MATCH_K == 4
ConversationCap == 6
SummaryCap == 6
DEFAULT_BATCH_SIZE == 10

\* ------------------------------------------------------------ JavaScript values
Undefined == [t |-> "undefined", s |-> "undefined"]
Null == [t |-> "null", s |-> "null"]
Str(x) == [t |-> "string", s |-> x]
Num(x) == [t |-> "number", s |-> x]

Truthy(v) ==
  ~ \/ v.t \in {"undefined", "null"}
    \/ v.t = "string" /\ v.s = ""
    \/ v.t = "number" /\ v.s \in {"0", "NaN"}

Nullish(v) == v.t \in {"undefined", "null"}

\* a || b, a ?? b
OrElse(a, b) == IF Truthy(a) THEN a ELSE b
Coalesce(a, b) == IF Nullish(a) THEN b ELSE a

Min(a, b) == IF a < b THEN a ELSE b
Max(a, b) == IF a > b THEN a ELSE b

\* Array.prototype.slice(start, end): negative indices count from the end.
SliceJS(arr, start, end) ==
  LET n == Len(arr)
      from == IF start < 0 THEN Max(n + start, 0) ELSE Min(start, n)
      to == IF end < 0 THEN Max(n + end, 0) ELSE Min(end, n)
  IN SubSeq(arr, from + 1, to)

\* String.prototype.trim(): strips leading and trailing white space.
RECURSIVE TrimLeft(_)
TrimLeft(s) ==
  IF Len(s) > 0 /\ SubSeq(s, 1, 1) = " " THEN TrimLeft(SubSeq(s, 2, Len(s))) ELSE s

RECURSIVE TrimRight(_)
TrimRight(s) ==
  IF Len(s) > 0 /\ SubSeq(s, Len(s), Len(s)) = " "
  THEN TrimRight(SubSeq(s, 1, Len(s) - 1))
  ELSE s

\* the query used as it came
Trim_Untrimmed(s) == s

Trim(s) == TrimRight(TrimLeft(s))

\* Array.prototype.join(sep) on an array of strings.
RECURSIVE Join(_, _)
Join(items, sep) ==
  IF Len(items) = 0 THEN ""
  ELSE IF Len(items) = 1 THEN items[1]
  ELSE items[1] \o sep \o Join(Tail(items), sep)

\* JSON.stringify of a scalar: strings are quoted, the rest print as they are.
JsonScalar(v) == IF v.t = "string" THEN "\"" \o v.s \o "\"" ELSE v.s

\* One "key":value member, left out when the value is undefined.
JsonMember(key, v) ==
  IF v.t = "undefined" THEN <<>> ELSE << "\"" \o key \o "\":" \o JsonScalar(v) >>

\* ------------------------------------------------------------ the request
QueryTexts == {"", "  ", " a "}
Queries == {Undefined} \cup {Str(q) : q \in QueryTexts}
PropertyIds == {Undefined, Null, Str("p1")}
MatchKs == {[t |-> "undefined", n |-> 0]} \cup {[t |-> "number", n |-> k] : k \in (-1)..MaxMatchK}

Roles == <<"user", "assistant", "system">>
Turn(i) == [role |-> Roles[((i - 1) % 3) + 1], content |-> "m" \o ToString(i)]
ConversationOf(n) == [t |-> "array", items |-> [i \in 1..n |-> Turn(i)]]
Conversations == {[t |-> "undefined", items |-> <<>>]} \cup {ConversationOf(n) : n \in 0..MaxConv}

\* RequestBody: every field optional.
RequestBodies ==
  [query : Queries, propertyId : PropertyIds, matchK : MatchKs, conversation : Conversations]

NoBody == [query |-> Undefined, propertyId |-> Undefined,
           matchK |-> [t |-> "undefined", n |-> 0],
           conversation |-> [t |-> "undefined", items |-> <<>>]]

\* event.body: absent, text that JSON.parse rejects, or a RequestBody.
Events ==
  { [kind |-> "none", body |-> NoBody], [kind |-> "malformed", body |-> NoBody] }
  \cup {[kind |-> "object", body |-> b] : b \in RequestBodies}

\* ------------------------------------------------------------ responses
NoResponse == [statusCode |-> 0, error |-> "", answer |-> Undefined,
               contextSummary |-> <<>>, retrievedCount |-> 0]

ErrorResponse(code, msg) == [NoResponse EXCEPT !.statusCode = code, !.error = msg]

MissingBodyResponse == ErrorResponse(400, "Missing request body")
QueryRequiredResponse == ErrorResponse(400, "Query is required")
EmbeddingFailedResponse == ErrorResponse(500, "Embedding generation failed")
\* the generation failure reported with the generic internal status
GenerationFailedResponse_AsInternal == ErrorResponse(500, "LLM generation failed")

GenerationFailedResponse == ErrorResponse(502, "LLM generation failed")
\* the outer catch without its fallback text
InternalErrorResponse_NoFallback(message) == ErrorResponse(500, message)

\* the outer catch: err.message || "internal_error"
InternalErrorResponse(message) ==
  ErrorResponse(500, IF message = "" THEN "internal_error" ELSE message)

\* ------------------------------------------------------------ state
VARIABLES event, pc, query, propertyId, matchK, conversation, queryEmbedding,
          rpc, retrievals, lookup, propertyRow, contextParts, prompt,
          qrog, qrogResponse, answerText, response, caught, calls

vars == <<event, pc, query, propertyId, matchK, conversation, queryEmbedding,
          rpc, retrievals, lookup, propertyRow, contextParts, prompt,
          qrog, qrogResponse, answerText, response, caught, calls>>

locals == <<query, propertyId, matchK, conversation, queryEmbedding,
            rpc, retrievals, lookup, propertyRow, contextParts, prompt,
            qrog, qrogResponse, answerText>>

NoCalls == [embed |-> 0, rpc |-> 0, lookup |-> 0, qrog |-> 0]

\* The chat widget: its React state, the requests not yet answered, the number sent.
VARIABLES isOpen, messages, input, loading, inFlight, sent

chatVars == <<isOpen, messages, input, loading, inFlight, sent>>

\* The indexer: its configuration, the two tables, the handler's locals, the
\* response, and what the run did (processed, upserted).
VARIABLES BATCH_SIZE, properties, property_embeddings, ipc, toEmbed, loopI, batch, loopJ,
          embeddings, embeddedCount, iresponse, processed, upserted

indexerVars == <<BATCH_SIZE, properties, property_embeddings, ipc, toEmbed, loopI, batch, loopJ,
                 embeddings, embeddedCount, iresponse, processed, upserted>>

allvars == <<vars, chatVars, indexerVars>>

\* Lines 11-20 of FloatingChatbot.tsx: the useState initial values.
Greeting == [role |-> "assistant", content |-> "Hello! I'm your Eaglesoak AI Realtor."]

ChatInit ==
  /\ isOpen = FALSE
  /\ messages = << Greeting >>
  /\ input = ""
  /\ loading = FALSE
  /\ inFlight = {}
  /\ sent = 0

\* The indexer before it is invoked, with empty tables.
NoIndexerResponse == [statusCode |-> 0, message |-> "", error |-> ""]

IndexerLocalsInit ==
  /\ ipc = "fetch"
  /\ toEmbed = <<>>
  /\ loopI = 0
  /\ batch = <<>>
  /\ loopJ = 0
  /\ embeddings = <<>>
  /\ embeddedCount = 0
  /\ iresponse = NoIndexerResponse
  /\ processed = [p \in 1..MaxProps |-> 0]
  /\ upserted = {}

IndexerIdle ==
  /\ BATCH_SIZE = DEFAULT_BATCH_SIZE
  /\ properties = <<>>
  /\ property_embeddings = {}
  /\ IndexerLocalsInit

\* ------------------------------------------------------------ collaborators
\* hf.embeddings: the call raises, or returns one of the shapes getEmbedding reads.
Vector == <<1, 2>>
EmbeddingResults ==
  { [kind |-> "raise", isArray |-> FALSE, embedding |-> <<>>, data0IsArray |-> FALSE, data0 |-> <<>>],
    [kind |-> "value", isArray |-> TRUE, embedding |-> <<>>, data0IsArray |-> FALSE, data0 |-> <<>>],
    [kind |-> "value", isArray |-> FALSE, embedding |-> Vector, data0IsArray |-> FALSE, data0 |-> <<>>],
    [kind |-> "value", isArray |-> FALSE, embedding |-> <<>>, data0IsArray |-> TRUE, data0 |-> Vector],
    [kind |-> "value", isArray |-> FALSE, embedding |-> <<>>, data0IsArray |-> FALSE, data0 |-> <<>>] }

\* getEmbedding: the vector, or a throw (ok = FALSE).
getEmbedding(res) ==
  IF res.kind = "raise" THEN [ok |-> FALSE, vector |-> <<>>]
  ELSE IF res.isArray THEN [ok |-> TRUE, vector |-> Vector]
  ELSE IF res.embedding # <<>> THEN [ok |-> TRUE, vector |-> res.embedding]
  ELSE IF res.data0IsArray THEN [ok |-> TRUE, vector |-> res.data0]
  ELSE [ok |-> FALSE, vector |-> <<>>]

\* Rows of match_property_embeddings: { property_id, metadata }.
NoMetadata == [t |-> "null", text |-> Undefined, content |-> Undefined, title |-> Undefined]
Doc(i) ==
  LET k == (i - 1) % 4
      id == ToString(i)
  IN [property_id |-> "p" \o id,
      metadata |->
        IF k = 0 THEN [NoMetadata EXCEPT !.t = "object", !.text = Str("T" \o id)]
        ELSE IF k = 1 THEN [NoMetadata EXCEPT !.t = "object", !.content = Str("C" \o id)]
        ELSE IF k = 2 THEN [NoMetadata EXCEPT !.t = "object", !.title = Str("H" \o id)]
        ELSE NoMetadata]
DocsOf(n) == [i \in 1..n |-> Doc(i)]

NoRpc == [kind |-> "none", hasData |-> FALSE, data |-> <<>>]
RpcResults ==
  { [kind |-> "raise", hasData |-> FALSE, data |-> <<>>],
    [kind |-> "error", hasData |-> FALSE, data |-> <<>>],
    [kind |-> "ok", hasData |-> FALSE, data |-> <<>>] }
  \cup {[kind |-> "ok", hasData |-> TRUE, data |-> DocsOf(n)] : n \in 0..MaxDocs}

\* Rows of the properties table.
NoAmenities == [t |-> "null", items |-> <<>>]
FullRow ==
  [title |-> Str("Villa"), description |-> Str("Nice"), price |-> Num("100"),
   currency |-> Str("USD"), city |-> Str("Abuja"), district |-> Str("Asokoro"),
   bedrooms |-> Num("3"), bathrooms |-> Num("2"), sqft |-> Num("2200"),
   amenities |-> [t |-> "array", items |-> <<"pool", "gym">>],
   investment_index |-> Num("8.4"), market_sentiment |-> Num("0.74")]
NullRow ==
  [title |-> Null, description |-> Null, price |-> Null,
   currency |-> Null, city |-> Null, district |-> Null,
   bedrooms |-> Null, bathrooms |-> Null, sqft |-> Null,
   amenities |-> NoAmenities,
   investment_index |-> Null, market_sentiment |-> Null]
ZeroRow ==
  [FullRow EXCEPT !.description = Str(""), !.district = Null, !.bedrooms = Num("0"),
                  !.sqft = Num("0"), !.amenities = [t |-> "array", items |-> <<>>],
                  !.investment_index = Num("0"), !.market_sentiment = Null]
NeutralRow == [FullRow EXCEPT !.market_sentiment = Num("0")]
PropertyRows == {FullRow, NullRow, ZeroRow, NeutralRow}

NoLookup == [kind |-> "none", message |-> "", found |-> FALSE, row |-> NullRow]
ErrorMessages == {"", "fetch failed"}
LookupResults ==
  {[kind |-> "raise", message |-> m, found |-> FALSE, row |-> NullRow] : m \in ErrorMessages}
  \cup { [kind |-> "error", message |-> "db error", found |-> FALSE, row |-> NullRow],
         [kind |-> "ok", message |-> "", found |-> FALSE, row |-> NullRow] }
  \cup {[kind |-> "ok", message |-> "", found |-> TRUE, row |-> r] : r \in PropertyRows}

\* The body of the generation provider's answer, as resp.json() gives it.
NoChoices == [t |-> "undefined", items |-> <<>>]
NullBody == [t |-> "null", s |-> "", output |-> Undefined, choices |-> NoChoices, result |-> Undefined]
StringBody(x) == [NullBody EXCEPT !.t = "string", !.s = x]
OutputBody(v) == [NullBody EXCEPT !.t = "object", !.output = v]
ChoicesBody(texts) ==
  [NullBody EXCEPT !.t = "object", !.choices = [t |-> "array", items |-> texts]]
OtherBody == [NullBody EXCEPT !.t = "object", !.result = Str("x")]
QrogBodies ==
  { NullBody, StringBody(""), StringBody("ans"),
    OutputBody(Str("ans")), OutputBody(Str("")), OutputBody(Num("42")),
    ChoicesBody(<<Str("ans")>>), ChoicesBody(<<Str("")>>), ChoicesBody(<<>>),
    ChoicesBody(<<Num("7")>>), OtherBody,
    [OutputBody(Str("ans")) EXCEPT !.choices = [t |-> "array", items |-> <<Str("alt")>>]],
    [OutputBody(Str("")) EXCEPT !.choices = [t |-> "array", items |-> <<Str("alt")>>]] }

\* callQrog: fetch raises, the status is not ok, resp.json() rejects the body, or
\* the body is returned.
NoQrog == [kind |-> "none", body |-> NullBody]
QrogResults ==
  { [kind |-> "raise", body |-> NullBody], [kind |-> "notok", body |-> NullBody],
    [kind |-> "badjson", body |-> NullBody] }
  \cup {[kind |-> "ok", body |-> b] : b \in QrogBodies}

\* ------------------------------------------------------------ initial state
HandlerLocalsInit ==
  /\ pc = "Validating"
  /\ query = ""
  /\ propertyId = Null
  /\ matchK = DEFAULT_MATCH_K
  /\ conversation = <<>>
  /\ queryEmbedding = <<>>
  /\ rpc = NoRpc
  /\ retrievals = <<>>
  /\ lookup = NoLookup
  /\ propertyRow = [found |-> FALSE, row |-> NullRow]
  /\ contextParts = <<>>
  /\ prompt = <<>>
  /\ qrog = NoQrog
  /\ qrogResponse = NullBody
  /\ answerText = Str("")
  /\ response = NoResponse
  /\ caught = FALSE
  /\ calls = NoCalls

Init ==
  /\ event \in Events
  /\ HandlerLocalsInit
  /\ ChatInit
  /\ IndexerIdle

Running == response = NoResponse

\* ------------------------------------------------------------ the handler
\* Lines 326-338: body check, parsing of the fields, query check.  A body that
\* JSON.parse rejects throws to the outer catch (478-481).
Validate ==
  /\ Running /\ pc = "Validating"
  /\ UNCHANGED <<chatVars, indexerVars>>
  /\ caught' = (event.kind = "malformed")
  /\ IF event.kind = "none"
     THEN /\ response' = MissingBodyResponse
          /\ UNCHANGED <<pc, locals>>
     ELSE IF event.kind = "malformed"
     THEN /\ response' = InternalErrorResponse("Unexpected token")
          /\ UNCHANGED <<pc, locals>>
     ELSE LET body == event.body
              q == Trim(OrElse(body.query, Str("")).s)
          IN /\ query' = q
             /\ propertyId' = OrElse(body.propertyId, Null)
             /\ matchK' = IF body.matchK.t = "undefined" THEN DEFAULT_MATCH_K ELSE body.matchK.n
             /\ conversation' = IF body.conversation.t = "undefined" THEN <<>> ELSE body.conversation.items
             /\ IF q = ""
                THEN /\ response' = QueryRequiredResponse
                     /\ pc' = pc
                ELSE /\ response' = response
                     /\ pc' = "EmbeddingQuery"
             /\ UNCHANGED <<queryEmbedding, rpc, retrievals, lookup, propertyRow,
                            contextParts, prompt, qrog, qrogResponse, answerText>>
  /\ UNCHANGED <<event, calls>>

\* Lines 340-347: the embedding of the query; a throw ends the request.
Embed ==
  /\ Running /\ pc = "EmbeddingQuery"
  /\ UNCHANGED <<chatVars, indexerVars>>
  /\ \E res \in EmbeddingResults :
       LET e == getEmbedding(res)
       IN IF e.ok
          THEN /\ queryEmbedding' = e.vector
               /\ pc' = "RetrievingContext"
               /\ response' = response
          ELSE /\ response' = EmbeddingFailedResponse
               /\ UNCHANGED <<queryEmbedding, pc>>
  /\ calls' = [calls EXCEPT !.embed = @ + 1]
  /\ UNCHANGED <<event, caught, query, propertyId, matchK, conversation, rpc, retrievals, lookup,
                 propertyRow, contextParts, prompt, qrog, qrogResponse, answerText>>

\* Lines 357-376: the similarity search; an error or a throw leaves no documents.
RetrievalsOf(r) == IF r.kind = "ok" /\ r.hasData THEN r.data ELSE <<>>

\* the search called again after a failure
Retrieve_Retry ==
  /\ Running /\ pc = "RetrievingContext"
  /\ UNCHANGED <<chatVars, indexerVars>>
  /\ calls.rpc < 2
  /\ \E r \in RpcResults :
       /\ rpc' = r
       /\ retrievals' = RetrievalsOf(r)
       /\ pc' = IF r.kind = "ok" \/ calls.rpc = 1 THEN "FetchingPropertyContext" ELSE pc
  /\ calls' = [calls EXCEPT !.rpc = @ + 1]
  /\ UNCHANGED <<event, caught, query, propertyId, matchK, conversation, queryEmbedding, lookup,
                 propertyRow, contextParts, prompt, qrog, qrogResponse, answerText, response>>

Retrieve ==
  /\ Running /\ pc = "RetrievingContext"
  /\ UNCHANGED <<chatVars, indexerVars>>
  /\ \E r \in RpcResults :
       /\ rpc' = r
       /\ retrievals' = RetrievalsOf(r)
  /\ pc' = "FetchingPropertyContext"
  /\ calls' = [calls EXCEPT !.rpc = @ + 1]
  /\ UNCHANGED <<event, caught, query, propertyId, matchK, conversation, queryEmbedding, lookup,
                 propertyRow, contextParts, prompt, qrog, qrogResponse, answerText, response>>

\* Lines 378-395: the property row, read only when a propertyId was given.  The
\* read is not inside a try of its own: a throw reaches the outer catch (478-481).
FetchProperty ==
  /\ Running /\ pc = "FetchingPropertyContext"
  /\ UNCHANGED <<chatVars, indexerVars>>
  /\ IF Truthy(propertyId)
     THEN /\ calls' = [calls EXCEPT !.lookup = @ + 1]
          /\ \E l \in LookupResults :
               /\ lookup' = l
               /\ caught' = (l.kind = "raise")
               /\ IF l.kind = "raise"
                  THEN /\ response' = InternalErrorResponse(l.message)
                       /\ UNCHANGED <<pc, propertyRow>>
                  ELSE /\ propertyRow' = IF l.kind = "ok" /\ l.found
                                         THEN [found |-> TRUE, row |-> l.row]
                                         ELSE propertyRow
                       /\ pc' = "AssemblingPrompt"
                       /\ response' = response
     ELSE /\ pc' = "AssemblingPrompt"
          /\ UNCHANGED <<calls, lookup, propertyRow, response, caught>>
  /\ UNCHANGED <<event, query, propertyId, matchK, conversation, queryEmbedding, rpc,
                 retrievals, contextParts, prompt, qrog, qrogResponse, answerText>>

\* Lines 400-411: the lines of the property row.
Opt(cond, line) == IF cond THEN <<line>> ELSE <<>>

PropertyFacts(p) ==
  IF ~p.found THEN <<>>
  ELSE LET r == p.row
       IN << "Property Title: " \o r.title.s >>
          \o Opt(Truthy(r.description), "Description: " \o r.description.s)
          \o << "Price: " \o Coalesce(r.currency, Str("NGN")).s \o " "
                \o Coalesce(r.price, Str("N/A")).s >>
          \o Opt(Truthy(r.city),
                 "Location: " \o r.city.s
                   \o (IF Truthy(r.district) THEN ", " \o r.district.s ELSE ""))
          \o Opt(r.bedrooms.t # "undefined", "Bedrooms: " \o r.bedrooms.s)
          \o Opt(r.bathrooms.t # "undefined", "Bathrooms: " \o r.bathrooms.s)
          \o Opt(Truthy(r.sqft), "Size (sqft): " \o r.sqft.s)
          \o Opt(r.amenities.t = "array", "Amenities: " \o Join(r.amenities.items, ", "))
          \o Opt(Truthy(r.investment_index), "Investment index: " \o r.investment_index.s)
          \o Opt(Truthy(r.market_sentiment), "Market sentiment: " \o r.market_sentiment.s)

\* Lines 416-417: meta.text || meta.content || JSON.stringify(meta), meta = r.metadata || r.
StringifyMetadata(m) ==
  "{" \o Join(JsonMember("text", m.text) \o JsonMember("content", m.content)
                \o JsonMember("title", m.title), ",") \o "}"

StringifyRow(r) ==
  "{\"property_id\":\"" \o r.property_id \o "\",\"metadata\":"
     \o (IF r.metadata.t = "object" THEN StringifyMetadata(r.metadata) ELSE "null") \o "}"

DocText(r) ==
  IF r.metadata.t = "object"
  THEN OrElse(OrElse(r.metadata.text, r.metadata.content),
              Str(StringifyMetadata(r.metadata))).s
  ELSE StringifyRow(r)

\* Lines 414-419: the first matchK documents, numbered from 1.
DocLines(docs, k) ==
  LET kept == SliceJS(docs, 0, k)
  IN [i \in 1..Len(kept) |-> "Context doc " \o ToString(i) \o ": " \o DocText(kept[i])]

\* Lines 422-427: the header and the most recent turns.
RenderTurn(m) == (IF m.role = "user" THEN "User" ELSE "Assistant") \o ": " \o m.content

\* the first turns kept instead of the last
RecentTurns_Oldest(conv) == SliceJS(conv, 0, ConversationCap)

RecentTurns(conv) == SliceJS(conv, -ConversationCap, Len(conv))

ConversationLines(conv) ==
  IF Len(conv) = 0 THEN <<>>
  ELSE LET kept == RecentTurns(conv)
       IN << "Conversation history:" >> \o [i \in 1..Len(kept) |-> RenderTurn(kept[i])]

\* the documents rendered only beside a property row
BuildContext_DocsNeedProperty(p, docs, k, conv) ==
  PropertyFacts(p) \o (IF p.found THEN DocLines(docs, k) ELSE <<>>) \o ConversationLines(conv)

BuildContext(p, docs, k, conv) ==
  PropertyFacts(p) \o DocLines(docs, k) \o ConversationLines(conv)

\* Lines 430-442: the prompt, kept as the lines that join("\n") puts together.
PromptHead ==
  << "You are EaglesOak Realty Assistant, a professional AI designed to answer property questions using ONLY the provided context. Be concise, factual, and include assumptions if you estimate numbers.",
     "-----",
     "Context:" >>

PromptTail(q) ==
  << "-----",
     "User query: " \o q,
     "-----",
     "Instructions:",
     "- Use the context above. If the context does not contain enough information, say what additional info you need.",
     "- Provide clear investment insights and risk notes where applicable.",
     "- Keep answer under 220 words and include a 1-2 sentence conclusion with recommended next steps." >>

BuildPrompt(parts, q) == PromptHead \o parts \o PromptTail(q)

\* Lines 397-442: context and prompt.
AssemblePrompt ==
  /\ Running /\ pc = "AssemblingPrompt"
  /\ UNCHANGED <<chatVars, indexerVars>>
  /\ contextParts' = BuildContext(propertyRow, retrievals, matchK, conversation)
  /\ prompt' = BuildPrompt(contextParts', query)
  /\ pc' = "GeneratingAnswer"
  /\ UNCHANGED <<event, caught, query, propertyId, matchK, conversation, queryEmbedding, rpc,
                 retrievals, lookup, propertyRow, qrog, qrogResponse, answerText,
                 response, calls>>

\* Lines 444-451 and callQrog (297-319): a throw of callQrog ends the request.
Generate ==
  /\ Running /\ pc = "GeneratingAnswer"
  /\ UNCHANGED <<chatVars, indexerVars>>
  /\ \E g \in QrogResults :
       /\ qrog' = g
       /\ IF g.kind = "ok"
          THEN /\ qrogResponse' = g.body
               /\ pc' = "NormalizingResponse"
               /\ response' = response
          ELSE /\ response' = GenerationFailedResponse
               /\ UNCHANGED <<qrogResponse, pc>>
  /\ calls' = [calls EXCEPT !.qrog = @ + 1]
  /\ UNCHANGED <<event, caught, query, propertyId, matchK, conversation, queryEmbedding, rpc,
                 retrievals, lookup, propertyRow, contextParts, prompt, answerText>>

\* Lines 453-465: the answer text out of the provider's body.
FirstChoiceText(b) ==
  IF b.choices.t = "array" /\ Len(b.choices.items) > 0 THEN b.choices.items[1] ELSE Undefined

StringifyChoices(c) ==
  "[" \o Join([i \in 1..Len(c.items) |-> "{" \o Join(JsonMember("text", c.items[i]), ",") \o "}"], ",") \o "]"

StringifyBody(b) ==
  "{" \o Join(JsonMember("output", b.output)
                \o (IF b.choices.t = "array"
                    THEN << "\"choices\":" \o StringifyChoices(b.choices) >>
                    ELSE <<>>)
                \o JsonMember("result", b.result), ",") \o "}"

\* choices looked at before output
NormalizeAnswer_ChoicesFirst(b) ==
  IF b.t = "null" \/ (b.t = "string" /\ b.s = "") THEN Str("No answer from LLM.")
  ELSE IF b.t = "string" THEN Str(b.s)
  ELSE IF Truthy(FirstChoiceText(b)) THEN FirstChoiceText(b)
  ELSE IF Truthy(b.output) THEN b.output
  ELSE Str(StringifyBody(b))

NormalizeAnswer(b) ==
  IF b.t = "null" \/ (b.t = "string" /\ b.s = "") THEN Str("No answer from LLM.")
  ELSE IF b.t = "string" THEN Str(b.s)
  ELSE IF Truthy(b.output) THEN b.output
  ELSE IF Truthy(FirstChoiceText(b)) THEN FirstChoiceText(b)
  ELSE Str(StringifyBody(b))

\* Lines 468-472: the payload of the 200 response.
\* the whole context returned
ContextSummary_Uncapped(parts) == parts

ContextSummary(parts) == SliceJS(parts, 0, SummaryCap)

\* the documents counted after the default cap
RetrievedCount_Capped(docs) == Len(SliceJS(docs, 0, DEFAULT_MATCH_K))

RetrievedCount(docs) == Len(docs)

SuccessResponse(answer, parts, docs) ==
  [statusCode |-> 200, error |-> "", answer |-> answer,
   contextSummary |-> ContextSummary(parts), retrievedCount |-> RetrievedCount(docs)]

\* Lines 453-477: normalisation and the response.
Respond ==
  /\ Running /\ pc = "NormalizingResponse"
  /\ UNCHANGED <<chatVars, indexerVars>>
  /\ answerText' = NormalizeAnswer(qrogResponse)
  /\ response' = SuccessResponse(answerText', contextParts, retrievals)
  /\ pc' = "Responding"
  /\ UNCHANGED <<event, caught, query, propertyId, matchK, conversation, queryEmbedding, rpc,
                 retrievals, lookup, propertyRow, contextParts, prompt, qrog,
                 qrogResponse, calls>>

Next ==
  \/ Validate
  \/ Embed
  \/ Retrieve
  \/ FetchProperty
  \/ AssemblePrompt
  \/ Generate
  \/ Respond

Spec == Init /\ [][Next]_allvars

TypeOK ==
  /\ pc \in {"Validating", "EmbeddingQuery", "RetrievingContext", "FetchingPropertyContext",
             "AssemblingPrompt", "GeneratingAnswer", "NormalizingResponse", "Responding"}
  /\ response.statusCode \in {0, 200, 400, 500, 502}
  /\ caught \in BOOLEAN

\* ------------------------------------------------------------ properties
Done == response # NoResponse
IsError == response.statusCode \notin {0, 200}
IsSuccess == response.statusCode = 200

StartsWith(l, p) == Len(l) >= Len(p) /\ SubSeq(l, 1, Len(p)) = p

\* Every character a space (the empty text included).
AllSpaces(s) == \A i \in 1..Len(s) : SubSeq(s, i, i) = " "

\* No body at all, or a JSON object whose query is absent or all spaces.
BlankQuery(ev) ==
  \/ ev.kind = "none"
  \/ /\ ev.kind = "object"
     /\ \/ ev.body.query.t = "undefined"
        \/ ev.body.query.t = "string" /\ AllSpaces(ev.body.query.s)

Embedded == calls.embed = 1 /\ queryEmbedding # <<>>
RetrievalFailed == rpc.kind \in {"raise", "error"}
GenerationFailed == qrog.kind \in {"raise", "notok", "badjson"}

\* C1: a request whose query is missing, empty or only white space is answered
\* with status 400, and no collaborator (embedding, retrieval, property lookup,
\* generation) is ever called for it.
C1_BlankQueryRejected ==
  BlankQuery(event) =>
    /\ calls = NoCalls
    /\ pc = "Validating"
    /\ Done => response.statusCode = 400

C1_Witness ==
  /\ event.kind = "object" /\ event.body.query = Str("  ")
  /\ response = QueryRequiredResponse
  /\ calls = NoCalls

\* C2: once validation and embedding have passed, a retrieval call that raised or
\* returned an error leaves zero documents and the request still reaches the
\* generation call.
C2_RetrievalFailureReachesGeneration ==
  (Done /\ Embedded /\ RetrievalFailed) =>
    /\ retrievals = <<>>
    /\ calls.qrog = 1

\* C3: once validation and embedding have passed, a lookup that was skipped, found
\* nothing, returned an error or raised gives no property lines, the request goes
\* on to the generation call, and no error response comes from the lookup.
C3_LookupNeverFatal ==
  (Done /\ Embedded /\ ~(lookup.kind = "ok" /\ lookup.found)) =>
    /\ PropertyFacts(propertyRow) = <<>>
    /\ calls.qrog = 1
    /\ IsError => pc = "GeneratingAnswer"

\* C4: an error response is produced only in the Validating, EmbeddingQuery or
\* GeneratingAnswer stage.
C4_ErrorOnlyAtFatalStages ==
  IsError => pc \in {"Validating", "EmbeddingQuery", "GeneratingAnswer"}

\* C5: when the generation call fails (status not ok, or the call raises), the
\* response is status 502 with error "LLM generation failed", never a 200 with an
\* answer.
C5_GenerationFailureIs502 ==
  GenerationFailed =>
    /\ response.statusCode = 502
    /\ response.error = "LLM generation failed"
    /\ response.answer = Undefined

C5_Witness ==
  /\ qrog.kind = "notok"
  /\ calls.qrog = 1
  /\ response.statusCode = 502

\* The failure class of an error response: the outer catch, or else the stage
\* that returned it.
FailureClass ==
  IF caught THEN "internal"
  ELSE IF pc = "Validating" THEN "bad_request"
  ELSE IF pc = "EmbeddingQuery" THEN "embedding"
  ELSE IF pc = "GeneratingAnswer" THEN "generation"
  ELSE "internal"

FailureClasses == {"bad_request", "embedding", "generation", "internal"}

ClassStatus(c) ==
  IF c = "bad_request" THEN QueryRequiredResponse.statusCode
  ELSE IF c = "embedding" THEN EmbeddingFailedResponse.statusCode
  ELSE IF c = "generation" THEN GenerationFailedResponse.statusCode
  ELSE InternalErrorResponse("").statusCode

\* C6 as stated: the four failure classes have pairwise distinct status codes,
\* and every error body carries an error message.
C6_PairwiseDistinctStatus ==
  IsError =>
    /\ response.error # ""
    /\ \A c \in FailureClasses \ {FailureClass} : ClassStatus(c) # response.statusCode

\* C6 (amended): a bad request is 400, a generation failure 502, and an embedding
\* failure and an unexpected internal failure are both 500; 400 and 502 belong to
\* one class each; every error body carries a non-empty error message.
C6_StatusByClass ==
  IsError =>
    /\ response.error # ""
    /\ FailureClass = "bad_request" => response.statusCode = 400
    /\ FailureClass = "generation" => response.statusCode = 502
    /\ FailureClass \in {"embedding", "internal"} => response.statusCode = 500
    /\ response.answer = Undefined /\ response.contextSummary = <<>>

C6_Witness ==
  /\ IsError
  /\ FailureClass = "internal"
  /\ lookup.kind = "raise" /\ lookup.message = ""
  /\ response.statusCode = EmbeddingFailedResponse.statusCode

\* C7: in a 200 response retrievedCount is the number of documents the retrieval
\* returned, before the cap of the context: 0 when retrieval gave none or failed.
C7_RetrievedCountIsUncapped ==
  IsSuccess =>
    response.retrievedCount = (IF rpc.kind = "ok" /\ rpc.hasData THEN Len(rpc.data) ELSE 0)

ContextDocLines == SelectSeq(contextParts, LAMBDA l : StartsWith(l, "Context doc "))

C7_Witness ==
  /\ IsSuccess
  /\ response.retrievedCount = MaxDocs
  /\ Len(ContextDocLines) < response.retrievedCount

\* C8: when retrieval and generation both succeed, the answer of the 200 response
\* is a non-empty string, whatever the shape of the provider's body.
C8_AnswerNonEmptyString ==
  (IsSuccess /\ rpc.kind = "ok") =>
    /\ response.answer.t = "string"
    /\ response.answer.s # ""

\* C9: contextSummary of a 200 response has at most 6 entries, however many
\* context lines were assembled.
C9_SummaryAtMostSix ==
  IsSuccess => Len(response.contextSummary) <= 6

C9_Witness ==
  /\ IsSuccess
  /\ Len(contextParts) > 6
  /\ Len(response.contextSummary) = 6

\* C10: the prompt renders exactly the last min(n, 6) turns of the n supplied, in
\* their order, and no earlier turn.
IsTurnLine(l) == StartsWith(l, "User: ") \/ StartsWith(l, "Assistant: ")

C10_LastSixTurnsInOrder ==
  prompt # <<>> =>
    LET supplied == event.body.conversation.items
        n == Len(supplied)
        k == IF n < 6 THEN n ELSE 6
        shown == SelectSeq(prompt, IsTurnLine)
    IN /\ Len(shown) = k
       /\ \A j \in 1..k :
            shown[j] = (IF supplied[n - k + j].role = "user" THEN "User: " ELSE "Assistant: ")
                         \o supplied[n - k + j].content

C10_Witness ==
  /\ prompt # <<>>
  /\ Len(event.body.conversation.items) > 6
  /\ Len(SelectSeq(prompt, IsTurnLine)) = 6

\* The labels of the property lines and the fields they are built from.
FactLabels ==
  << [label |-> "Property Title: ", field |-> "title"],
     [label |-> "Description: ", field |-> "description"],
     [label |-> "Price: ", field |-> "price"],
     [label |-> "Location: ", field |-> "city"],
     [label |-> "Bedrooms: ", field |-> "bedrooms"],
     [label |-> "Bathrooms: ", field |-> "bathrooms"],
     [label |-> "Size (sqft): ", field |-> "sqft"],
     [label |-> "Amenities: ", field |-> "amenities"],
     [label |-> "Investment index: ", field |-> "investment_index"],
     [label |-> "Market sentiment: ", field |-> "market_sentiment"] >>

IsFactLine(l) == \E i \in 1..Len(FactLabels) : StartsWith(l, FactLabels[i].label)
IsDocLine(l) == StartsWith(l, "Context doc ")
HasLine(parts, l) == \E i \in 1..Len(parts) : parts[i] = l

\* The context has been assembled (steps 4-5 have run).
Assembled == pc \in {"GeneratingAnswer", "NormalizingResponse", "Responding"}

\* C11: with a propertyId supplied and no record found, the context has no property
\* line, and its "Context doc" lines are those the same retrieval result gives
\* with any found record and with no propertyId at all.
C11_NotFoundLeavesDocsAlone ==
  (Assembled /\ Truthy(propertyId) /\ lookup.kind = "ok" /\ ~lookup.found) =>
    /\ SelectSeq(contextParts, IsFactLine) = <<>>
    /\ \A p \in {[found |-> FALSE, row |-> NullRow]}
                  \cup {[found |-> TRUE, row |-> r] : r \in PropertyRows} :
         SelectSeq(BuildContext(p, RetrievalsOf(rpc), matchK, conversation), IsDocLine)
           = SelectSeq(contextParts, IsDocLine)

C11_Witness ==
  /\ Assembled /\ Truthy(propertyId) /\ lookup.kind = "ok" /\ ~lookup.found
  /\ Len(SelectSeq(contextParts, IsDocLine)) = 4
  /\ SelectSeq(contextParts, IsFactLine) = <<>>

\* C12: a property line is in the context only when the field it is built from is
\* present (neither null nor undefined) in the record the lookup returned.
C12_FactsOnlyForPresentFields ==
  (Assembled /\ propertyRow.found) =>
    \A i \in 1..Len(FactLabels) :
      (\E j \in 1..Len(contextParts) : StartsWith(contextParts[j], FactLabels[i].label))
        => ~Nullish(propertyRow.row[FactLabels[i].field])

\* C13: a found record with numeric investment_index v and market_sentiment s and
\* a retrieval without documents give the lines "Investment index: v" and
\* "Market sentiment: s", no "Context doc" line, and the generation call.
C13_ScoresAlwaysRendered ==
  ( /\ Assembled /\ propertyRow.found
    /\ propertyRow.row.investment_index.t = "number"
    /\ propertyRow.row.market_sentiment.t = "number"
    /\ rpc.kind = "ok" /\ retrievals = <<>> ) =>
    /\ HasLine(contextParts, "Investment index: " \o propertyRow.row.investment_index.s)
    /\ HasLine(contextParts, "Market sentiment: " \o propertyRow.row.market_sentiment.s)
    /\ SelectSeq(contextParts, IsDocLine) = <<>>
    /\ Done => calls.qrog = 1

\* C15: the context has at most K "Context doc" lines (K the request's matchK, or
\* the default), they are the first documents of the retrieval in its order, and
\* they are numbered 1, 2, ...
C15_AtMostKDocsInOrder ==
  Assembled =>
    LET shown == SelectSeq(contextParts, IsDocLine)
        docs == RetrievalsOf(rpc)
    IN /\ Len(shown) <= Max(matchK, 0)
       /\ Len(shown) <= Len(docs)
       /\ \A i \in 1..Len(shown) :
            shown[i] = "Context doc " \o ToString(i) \o ": " \o DocText(docs[i])

\* C16 as stated: a bare string is the answer; else an exposed output field is;
\* else the text of the first choice is; else the serialization of the body.
C16_FirstExposedFieldWins ==
  IsSuccess =>
    LET b == qrogResponse
        c == IF b.choices.t = "array" /\ Len(b.choices.items) > 0
             THEN b.choices.items[1] ELSE Undefined
    IN /\ b.t = "string" => response.answer = Str(b.s)
       /\ (b.t = "object" /\ b.output.t # "undefined") => response.answer = b.output
       /\ (b.t = "object" /\ b.output.t = "undefined" /\ c.t # "undefined")
            => response.answer = c

\* C16 (amended): a non-empty bare string is the answer; else a truthy output
\* field is; else a truthy text of the first choice is; else the serialization of
\* the body; a null or empty body gives "No answer from LLM.".  An earlier rule
\* that applies is never passed over for a later one.
C16_FirstTruthyFieldWins ==
  IsSuccess =>
    LET b == qrogResponse
        c == IF b.choices.t = "array" /\ Len(b.choices.items) > 0
             THEN b.choices.items[1] ELSE Undefined
        a == response.answer
    IN /\ (b.t = "null" \/ (b.t = "string" /\ b.s = "")) => a = Str("No answer from LLM.")
       /\ (b.t = "string" /\ b.s # "") => a = Str(b.s)
       /\ (b.t = "object" /\ Truthy(b.output)) => a = b.output
       /\ (b.t = "object" /\ ~Truthy(b.output) /\ Truthy(c)) => a = c
       /\ (b.t = "object" /\ ~Truthy(b.output) /\ ~Truthy(c))
            => (a = Str(StringifyBody(b)) /\ a # b.output /\ a # c)

C16_Witness ==
  /\ IsSuccess
  /\ Truthy(qrogResponse.output)
  /\ qrogResponse.choices.t = "array" /\ Len(qrogResponse.choices.items) > 0
  /\ Truthy(qrogResponse.choices.items[1])
  /\ response.answer = qrogResponse.output

\* C17: the stages run in the order embed, retrieve, property lookup, prompt
\* assembly, generate, respond; every collaborator is called at most once;
\* retrieval is called only after the embedding succeeded; generation is called
\* only after retrieval and lookup have completed or degraded.
StageRank(p) ==
  CASE p = "Validating" -> 0
    [] p = "EmbeddingQuery" -> 1
    [] p = "RetrievingContext" -> 2
    [] p = "FetchingPropertyContext" -> 3
    [] p = "AssemblingPrompt" -> 4
    [] p = "GeneratingAnswer" -> 5
    [] p = "NormalizingResponse" -> 6
    [] p = "Responding" -> 7

C17_CallOrder ==
  /\ calls.embed <= 1 /\ calls.rpc <= 1 /\ calls.lookup <= 1 /\ calls.qrog <= 1
  /\ calls.rpc = 1 => (calls.embed = 1 /\ queryEmbedding # <<>>)
  /\ calls.lookup = 1 => calls.rpc = 1
  /\ calls.qrog = 1 =>
       /\ calls.rpc = 1 /\ rpc.kind # "none"
       /\ Truthy(propertyId) => (calls.lookup = 1 /\ lookup.kind \in {"ok", "error"})
       /\ prompt # <<>>
  /\ calls.embed = (IF StageRank(pc) >= 2 \/ (pc = "EmbeddingQuery" /\ Done) THEN 1 ELSE 0)
  /\ calls.rpc = (IF StageRank(pc) >= 3 THEN 1 ELSE 0)
  /\ calls.qrog = (IF StageRank(pc) >= 6 \/ (pc = "GeneratingAnswer" /\ Done) THEN 1 ELSE 0)

C17_StagesInOrder ==
  [][pc' # pc => StageRank(pc') = StageRank(pc) + 1]_vars

C17_SequentialNoRetries == []C17_CallOrder /\ C17_StagesInOrder

C17_Witness ==
  /\ pc = "Responding"
  /\ calls = [embed |-> 1, rpc |-> 1, lookup |-> 1, qrog |-> 1]
  /\ rpc.kind = "error" /\ lookup.kind = "error"

\* ================================================= the chat widget
\* FloatingChatbot.tsx.  Each action is one event handler, or the part of
\* sendMessage that runs between two awaits.
HandlerIdle ==
  /\ event = [kind |-> "none", body |-> NoBody]
  /\ HandlerLocalsInit

\* What the visitor can type into the input box.
InputTexts == {"", " ", "hi", "yo"}

\* How a request ends: a JSON body with a truthy answer, a JSON body
\* without one (any error response of the endpoint), or a rejected
\* fetch / response.json().
Outcomes == {"answer", "noanswer", "raise"}

UserMessage(text) == [role |-> "user", content |-> text]

\* Lines 52-55 and 60-67: the assistant message a completed request adds.
AiMessage(o) ==
  [role |-> "assistant",
   content |-> CASE o = "answer" -> "answer"
                 [] o = "noanswer" -> "Sorry, I couldn't find a suitable answer."
                 [] OTHER -> "There was a network issue connecting to the AI engine. Please try again shortly."]

\* Line 23.
ToggleChat ==
  /\ isOpen' = ~isOpen
  /\ UNCHANGED <<messages, input, loading, inFlight, sent>>
  /\ UNCHANGED <<vars, indexerVars>>

\* Line 131: onChange of the input box, which is rendered while the
\* window is open and is never disabled.
TypeInput ==
  /\ isOpen
  /\ \E text \in InputTexts : text # input /\ input' = text
  /\ UNCHANGED <<isOpen, messages, loading, inFlight, sent>>
  /\ UNCHANGED <<vars, indexerVars>>

\* Lines 33-49: sendMessage up to its first await.  The only guard is
\* the blank-input test of line 34.
SendMessage ==
  IF Trim(input) = ""
    THEN UNCHANGED chatVars
    ELSE /\ messages' = Append(messages, UserMessage(input))
         /\ input' = ""
         /\ loading' = TRUE
         /\ sent' = sent + 1
         /\ inFlight' = inFlight \cup {sent + 1}
         /\ UNCHANGED isOpen

\* Lines 136-142: the Send button, disabled while loading.
ClickSend ==
  /\ isOpen /\ ~loading
  /\ sent < MaxSends
  /\ SendMessage
  /\ UNCHANGED <<vars, indexerVars>>

\* Lines 73-75 and 132: Enter in the input box calls sendMessage,
\* whatever loading is.
PressEnter ==
  /\ isOpen
  /\ sent < MaxSends
  /\ SendMessage
  /\ UNCHANGED <<vars, indexerVars>>

\* Lines 51-70: a request completes; its message is appended and the
\* finally block clears loading.
CompleteRequest ==
  /\ \E r \in inFlight, o \in Outcomes :
       /\ inFlight' = inFlight \ {r}
       /\ messages' = Append(messages, AiMessage(o))
  /\ loading' = FALSE
  /\ UNCHANGED <<isOpen, input, sent>>
  /\ UNCHANGED <<vars, indexerVars>>

ChatNext ==
  \/ ToggleChat
  \/ TypeInput
  \/ ClickSend
  \/ PressEnter
  \/ CompleteRequest

InitChat ==
  /\ HandlerIdle
  /\ ChatInit
  /\ IndexerIdle

SpecChat == InitChat /\ [][ChatNext]_allvars

\* C18: at most one request to the endpoint is in flight at any time, and
\* loading is true exactly while a request is outstanding.
C18_OneRequestInFlight ==
  /\ Cardinality(inFlight) <= 1
  /\ loading <=> (inFlight # {})

\* ================================================= the embedding indexer
\* generateEmbeddings.ts.  Properties are their ids 1..n; the properties
\* table is the list the first read returns, property_embeddings the set
\* of property ids that have a row.

\* EMBEDDING_BATCH_SIZE in the environment: unset, or the text of a number.
EnvBatchSizes == {Undefined} \cup {Str(ToString(n)) : n \in 0..MaxBatchSize}

\* Number(text) for the text of a natural number.
NumberOf(text) == CHOOSE n \in 0..(MaxBatchSize + 1) : ToString(n) = text

\* Line 90: Number(process.env.EMBEDDING_BATCH_SIZE || 10).  "0" is a
\* non-empty string, hence truthy, and gives 0.
BatchSizeOf(env) == IF Truthy(env) THEN NumberOf(env.s) ELSE DEFAULT_BATCH_SIZE

PropertyLists == {[k \in 1..n |-> k] : n \in 0..MaxProps}

\* What a Supabase call returns: data, or an error object.
DbOutcomes == {"ok", "error"}

\* What generateEmbeddingForText does (lines 101-121): return a vector or throw.
EmbedOutcomes == {"ok", "throw"}

IndexerError(msg) == [statusCode |-> 500, message |-> "", error |-> msg]

IndexerMessage(msg) == [statusCode |-> 200, message |-> msg, error |-> ""]

\* The property ids of the rows handed to upsert (line 205).
Range(rows) == {rows[k] : k \in 1..Len(rows)}

\* Line 218.
EmbeddedMessage(n) == "Embedded " \o ToString(n) \o " properties successfully."

InitIndexer ==
  /\ HandlerIdle
  /\ ChatInit
  /\ BATCH_SIZE \in {BatchSizeOf(e) : e \in EnvBatchSizes}
  /\ properties \in PropertyLists
  /\ property_embeddings \in SUBSET (1..MaxProps)
  /\ IndexerLocalsInit

\* Lines 131-138: read the properties table.
FetchProperties ==
  /\ ipc = "fetch"
  /\ \E o \in DbOutcomes :
       IF o = "error"
         THEN /\ iresponse' = IndexerError("fetchError")
              /\ ipc' = "done"
         ELSE IF Len(properties) = 0
           THEN /\ iresponse' = IndexerMessage("No properties found.")
                /\ ipc' = "done"
           ELSE /\ ipc' = "select"
                /\ UNCHANGED iresponse
  /\ UNCHANGED <<BATCH_SIZE, properties, property_embeddings, toEmbed, loopI, batch, loopJ,
                 embeddings, embeddedCount, processed, upserted>>
  /\ UNCHANGED <<vars, chatVars>>

\* Lines 141-156: read the embedded ids, select the properties to embed.
SelectToEmbed ==
  /\ ipc = "select"
  /\ \E o \in DbOutcomes :
       IF o = "error"
         THEN /\ iresponse' = IndexerError("embError")
              /\ ipc' = "done"
              /\ UNCHANGED toEmbed
         ELSE LET sel == SelectSeq(properties, LAMBDA p : p \notin property_embeddings)
              IN  /\ toEmbed' = sel
                  /\ IF Len(sel) = 0
                       THEN /\ iresponse' = IndexerMessage("All properties already embedded.")
                            /\ ipc' = "done"
                       ELSE /\ ipc' = "loop"
                            /\ UNCHANGED iresponse
  /\ UNCHANGED <<BATCH_SIZE, properties, property_embeddings, loopI, batch, loopJ,
                 embeddings, embeddedCount, processed, upserted>>
  /\ UNCHANGED <<vars, chatVars>>

\* Lines 157-162: the loop test holds; cut the next batch.
StartBatch ==
  /\ ipc = "loop"
  /\ loopI < Len(toEmbed)
  /\ batch' = SliceJS(toEmbed, loopI, loopI + BATCH_SIZE)
  /\ embeddings' = <<>>
  /\ loopJ' = 1
  /\ ipc' = "batch"
  /\ UNCHANGED <<BATCH_SIZE, properties, property_embeddings, toEmbed, loopI,
                 embeddedCount, iresponse, processed, upserted>>
  /\ UNCHANGED <<vars, chatVars>>

\* Lines 164-201: one property of the batch.  Its text always holds
\* "Price: ...", so line 177 never skips it.
EmbedProperty ==
  /\ ipc = "batch"
  /\ loopJ <= Len(batch)
  /\ processed' = [processed EXCEPT ![batch[loopJ]] = @ + 1]
  /\ \E o \in EmbedOutcomes :
       IF o = "ok"
         THEN /\ embeddings' = Append(embeddings, batch[loopJ])
              /\ embeddedCount' = embeddedCount + 1
         ELSE UNCHANGED <<embeddings, embeddedCount>>
  /\ loopJ' = loopJ + 1
  /\ UNCHANGED <<BATCH_SIZE, properties, property_embeddings, ipc, toEmbed, loopI, batch,
                 iresponse, upserted>>
  /\ UNCHANGED <<vars, chatVars>>

\* Lines 203-212 and the step of line 157: upsert the batch's rows if
\* there are any, then i += BATCH_SIZE.  A returned error is only logged.
UpsertBatch ==
  /\ ipc = "batch"
  /\ loopJ > Len(batch)
  /\ IF Len(embeddings) > 0
       THEN \E o \in DbOutcomes :
              IF o = "ok"
                THEN /\ property_embeddings' = property_embeddings \cup Range(embeddings)
                     /\ upserted' = upserted \cup Range(embeddings)
                ELSE UNCHANGED <<property_embeddings, upserted>>
       ELSE UNCHANGED <<property_embeddings, upserted>>
  /\ loopI' = loopI + BATCH_SIZE
  /\ ipc' = "loop"
  /\ UNCHANGED <<BATCH_SIZE, properties, toEmbed, batch, loopJ, embeddings, embeddedCount,
                 iresponse, processed>>
  /\ UNCHANGED <<vars, chatVars>>

\* Lines 157 and 214-219: the loop test fails; report the count.
FinishIndexing ==
  /\ ipc = "loop"
  /\ ~(loopI < Len(toEmbed))
  /\ iresponse' = IndexerMessage(EmbeddedMessage(embeddedCount))
  /\ ipc' = "done"
  /\ UNCHANGED <<BATCH_SIZE, properties, property_embeddings, toEmbed, loopI, batch, loopJ,
                 embeddings, embeddedCount, processed, upserted>>
  /\ UNCHANGED <<vars, chatVars>>

IndexerNext ==
  \/ FetchProperties
  \/ SelectToEmbed
  \/ StartBatch
  \/ EmbedProperty
  \/ UpsertBatch
  \/ FinishIndexing

\* The runtime keeps running the handler until it returns.
SpecIndexer == InitIndexer /\ [][IndexerNext]_allvars /\ WF_allvars(IndexerNext)

IndexerReturned == ipc = "done"

FinishedEmbedded ==
  /\ IndexerReturned
  /\ \E n \in 0..MaxProps : iresponse.message = EmbeddedMessage(n)

EveryPropertyProcessedOnce ==
  \A k \in 1..Len(toEmbed) : processed[toEmbed[k]] = 1

\* C19: the batch loop terminates for every configured batch size: the
\* handler always reaches a response, and when it reports the run's count
\* each property selected for embedding was processed exactly once.
C19_LoopTerminates ==
  /\ <>IndexerReturned
  /\ [](FinishedEmbedded => EveryPropertyProcessedOnce)

\* C20: when the indexer finishes with "Embedded N properties
\* successfully.", N is the number of properties whose row was upserted in
\* the run, and no failure kept a selected property from being processed.
C20_CountIsUpserted ==
  FinishedEmbedded =>
    /\ iresponse.message = EmbeddedMessage(Cardinality(upserted))
    /\ EveryPropertyProcessedOnce
====
